---------------------------- MODULE Spec2Model ----------------------------
(***************************************************************************)
(* QR code label generator (QR_coding.py): the record loader               *)
(* read_csv_data, the two patch renderers, and the sheet compositor        *)
(* generate_label_sheets driven by main.                                   *)
(*                                                                         *)
(* A CSV file is modelled after csv.reader has split it: a sequence of     *)
(* rows, each a sequence of fields, the first row being the header.  A     *)
(* raster is modelled by the owner of each pixel: Background where nothing *)
(* was written, otherwise the tag of the patch whose blit wrote it last.   *)
(***************************************************************************)
EXTENDS Integers, Sequences, FiniteSets, TLC

VARIABLES args, file, pc, data, label_count, sheet_num, row, col, sheet,
          qr_img, text_img, saved, stdout, exitStatus, fetched, blits

vars == <<args, file, pc, data, label_count, sheet_num, row, col, sheet,
          qr_img, text_img, saved, stdout, exitStatus, fetched, blits>>

(***************************************************************************)
(* Bounds of the model.                                                    *)
(***************************************************************************)
MaxGrid == 2

MaxDim == 3

MaxN == 5

MaxFields == 2

MaxDataRows == 2

(***************************************************************************)
(* Values.                                                                 *)
(***************************************************************************)
Background == 255

\* Python's None (csv.DictReader's restval), distinct from every string.
None == "<None>"

\* A text longer than the largest QR symbol can hold: qr.make(fit=True) raises.
LONG == "<text over QR capacity>"

label_col == "label"

desc_col == "description"

Min(a, b) == IF a <= b THEN a ELSE b

Max(a, b) == IF a >= b THEN a ELSE b

SetMax(S) == CHOOSE m \in S : \A k \in S : k <= m

SeqsUpTo(S, n) == UNION {[1..k -> S] : k \in 0..n}

(***************************************************************************)
(* csv.DictReader: the dictionary built for one row, read at one key.      *)
(* dict(zip(fieldnames, row)) keeps the last field of a repeated name; the *)
(* names beyond the row's length are then set to restval (None).           *)
(***************************************************************************)
RowGet(fieldnames, r, key, default) ==
    LET lf == Len(fieldnames)
        lr == Len(r)
        zipped == {j \in 1..Min(lf, lr) : fieldnames[j] = key}
        rest == {j \in (lr + 1)..lf : fieldnames[j] = key}
    IN  IF rest # {} THEN None
        ELSE IF zipped # {} THEN r[SetMax(zipped)]
        ELSE default

\* DictReader.__next__ skips the rows that csv.reader returns as [].
DataRows(f) == SelectSeq(Tail(f.lines), LAMBDA r : r # <<>>)

\* The cases in which the body of read_csv_data raises: open() fails, the
\* file has no header row (fieldnames is None), or the label column is absent.
ReadRaises(f) ==
    \/ ~f.readable
    \/ f.lines = <<>>
    \/ \A j \in 1..Len(f.lines[1]) : f.lines[1][j] # label_col

read_csv_data(f) ==
    IF ReadRaises(f) THEN <<>>
    ELSE [i \in 1..Len(DataRows(f)) |->
             <<RowGet(f.lines[1], DataRows(f)[i], label_col, ""),
               RowGet(f.lines[1], DataRows(f)[i], desc_col, "")>>]

(***************************************************************************)
(* The renderers.  A patch is its shape and the tag its pixels carry.      *)
(***************************************************************************)
Falsy(text) == text = "" \/ text = None

QrTag(i) == 2 * i + 1

TextTag(i) == 2 * i + 2

\* qr.make(fit=True) raises DataOverflowError when no symbol version fits.
QrRaises(text) == ~Falsy(text) /\ text = LONG

create_qr_code(text, size, i) == [h |-> size, w |-> size, tag |-> QrTag(i)]

create_text_image(label, description, size, i) ==
    [h |-> size, w |-> size, tag |-> TextTag(i)]

(***************************************************************************)
(* Layout arithmetic of generate_label_sheets.                             *)
(***************************************************************************)
labels_per_sheet == args.rows * args.cols

num_sheets == (Len(data) + labels_per_sheet - 1) \div labels_per_sheet

sheet_width == args.cols * args.label_width

sheet_height == args.rows * args.label_height

x_offset == col * args.label_width

y_offset == row * args.label_height

margin == (args.label_height - args.qr_size) \div 2

qr_x == x_offset + margin

qr_y == y_offset + margin

text_x == x_offset + args.label_width \div 2

text_y == y_offset + margin

SheetPixels == (0..(sheet_height - 1)) \X (0..(sheet_width - 1))

BlankSheet == [p \in SheetPixels |-> Background]

(***************************************************************************)
(* numpy: a[start:stop] on an axis of length n selects lo..hi-1.           *)
(***************************************************************************)
PyIndex(k, n) == IF k < 0 THEN Max(k + n, 0) ELSE Min(k, n)

SliceLo(start, stop, n) == PyIndex(start, n)

SliceHi(start, stop, n) == Max(PyIndex(start, n), PyIndex(stop, n))

\* The placement guard of lines 288 and 293.
GuardOK(p, y, x) ==
    /\ p.h <= args.qr_size
    /\ p.w <= args.qr_size
    /\ y + p.h <= sheet_height
    /\ x + p.w <= sheet_width

\* The target of sheet[y:y+h, x:x+w].
Target(p, y, x) ==
    {q \in SheetPixels :
        /\ SliceLo(y, y + p.h, sheet_height) <= q[1]
        /\ q[1] < SliceHi(y, y + p.h, sheet_height)
        /\ SliceLo(x, x + p.w, sheet_width) <= q[2]
        /\ q[2] < SliceHi(x, x + p.w, sheet_width)}

\* numpy broadcasts the patch to the target: each axis equal, or 1 in the patch.
Broadcasts(p, y, x) ==
    LET th == SliceHi(y, y + p.h, sheet_height) - SliceLo(y, y + p.h, sheet_height)
        tw == SliceHi(x, x + p.w, sheet_width) - SliceLo(x, x + p.w, sheet_width)
    IN  (p.h = th \/ p.h = 1) /\ (p.w = tw \/ p.w = 1)

\* Variant of Blit that writes the part of the patch the slice selects
\* instead of raising.
BlitClipped(sh, p, y, x) ==
    IF ~GuardOK(p, y, x) THEN [outcome |-> "skipped", sheet |-> sh]
    ELSE [outcome |-> "written",
          sheet |-> [q \in DOMAIN sh |-> IF q \in Target(p, y, x) THEN p.tag ELSE sh[q]]]

\* One guarded placement: "skipped" when the guard fails, "raised" when the
\* slice assignment raises ValueError, otherwise "written" with the new canvas.
Blit(sh, p, y, x) ==
    IF ~GuardOK(p, y, x) THEN [outcome |-> "skipped", sheet |-> sh]
    ELSE IF ~Broadcasts(p, y, x) THEN [outcome |-> "raised", sheet |-> sh]
    ELSE [outcome |-> "written",
          sheet |-> [q \in DOMAIN sh |-> IF q \in Target(p, y, x) THEN p.tag ELSE sh[q]]]

(***************************************************************************)
(* Initial states: the command line and the input file.                    *)
(***************************************************************************)
NoImg == [h |-> 0, w |-> 0, tag |-> Background]

Header == <<label_col, desc_col>>

LayoutArgs ==
    [rows : 1..MaxGrid, cols : 1..MaxGrid,
     label_width : 1..MaxDim, label_height : 1..MaxDim, qr_size : 1..MaxDim]

\* n records, the bad-th of them (if any) with a text no QR symbol holds.
LayoutFile(n, bad) ==
    [readable |-> TRUE,
     lines |-> <<Header>> \o [i \in 1..n |-> <<IF i = bad THEN LONG ELSE "a", "d">>]]

LayoutFiles == {LayoutFile(n, bad) : n \in 0..MaxN, bad \in 0..MaxN}

LoaderArgs ==
    [rows |-> 1, cols |-> 2, label_width |-> 2, label_height |-> 1, qr_size |-> 1]

Headers ==
    {<<>>, <<label_col>>, <<desc_col>>, <<label_col, desc_col>>,
     <<desc_col, label_col>>, <<"id", label_col>>}

LoaderFiles ==
    {[readable |-> FALSE, lines |-> <<>>], [readable |-> TRUE, lines |-> <<>>]}
    \cup {[readable |-> TRUE, lines |-> <<h>> \o rs] :
            h \in Headers, rs \in SeqsUpTo(SeqsUpTo({"", "a"}, MaxFields), MaxDataRows)}

Init ==
    /\ \/ args \in LayoutArgs /\ file \in LayoutFiles
       \/ args = LoaderArgs /\ file \in LoaderFiles
    /\ pc = "start"
    /\ data = <<>>
    /\ label_count = 0
    /\ sheet_num = 0
    /\ row = 0
    /\ col = 0
    /\ sheet = <<>>
    /\ qr_img = NoImg
    /\ text_img = NoImg
    /\ saved = <<>>
    /\ stdout = <<>>
    /\ exitStatus = -1
    /\ fetched = <<>>
    /\ blits = <<>>

(***************************************************************************)
(* main                                                                    *)
(***************************************************************************)
ReadCsvData ==
    /\ pc = "start"
    /\ data' = read_csv_data(file)
    /\ stdout' = IF ReadRaises(file) THEN Append(stdout, "Error reading CSV file")
                 ELSE stdout
    /\ pc' = "check"
    /\ UNCHANGED <<args, file, label_count, sheet_num, row, col, sheet, qr_img,
                   text_img, saved, exitStatus, fetched, blits>>

NoData ==
    /\ pc = "check"
    /\ data = <<>>
    /\ stdout' = Append(stdout, "No data found or error in CSV file. Exiting.")
    /\ exitStatus' = 0
    /\ pc' = "done"
    /\ UNCHANGED <<args, file, data, label_count, sheet_num, row, col, sheet,
                   qr_img, text_img, saved, fetched, blits>>

StartGenerate ==
    /\ pc = "check"
    /\ data # <<>>
    /\ stdout' = Append(stdout, "Generating labels")
    /\ label_count' = 0
    /\ sheet_num' = 1
    /\ pc' = "sheet_loop"
    /\ UNCHANGED <<args, file, data, row, col, sheet, qr_img, text_img, saved,
                   exitStatus, fetched, blits>>

(***************************************************************************)
(* generate_label_sheets                                                   *)
(***************************************************************************)
\* Variant of NewSheet with the counter initialised inside the sheet loop.
NewSheetResetCount ==
    /\ pc = "sheet_loop"
    /\ sheet_num <= num_sheets
    /\ sheet' = BlankSheet
    /\ label_count' = 0
    /\ row' = 0
    /\ col' = 0
    /\ pc' = "cell"
    /\ UNCHANGED <<args, file, data, sheet_num, qr_img, text_img, saved,
                   stdout, exitStatus, fetched, blits>>

\* Variant of NewSheet with the canvas allocated once, before the sheet loop.
NewSheetReuseCanvas ==
    /\ pc = "sheet_loop"
    /\ sheet_num <= num_sheets
    /\ sheet' = IF sheet = <<>> THEN BlankSheet ELSE sheet
    /\ row' = 0
    /\ col' = 0
    /\ pc' = "cell"
    /\ UNCHANGED <<args, file, data, label_count, sheet_num, qr_img, text_img,
                   saved, stdout, exitStatus, fetched, blits>>

NewSheet ==
    /\ pc = "sheet_loop"
    /\ sheet_num <= num_sheets
    /\ sheet' = BlankSheet
    /\ row' = 0
    /\ col' = 0
    /\ pc' = "cell"
    /\ UNCHANGED <<args, file, data, label_count, sheet_num, qr_img, text_img,
                   saved, stdout, exitStatus, fetched, blits>>

\* Lines 258-272: fetch the record and render its two patches.  An exception
\* of create_qr_code is raised outside the try block and ends the run.
RenderCell ==
    /\ pc = "cell"
    /\ row < args.rows
    /\ col < args.cols
    /\ label_count < Len(data)
    /\ fetched' = Append(fetched, [idx |-> label_count, sheet |-> sheet_num,
                                   row |-> row, col |-> col])
    /\ IF QrRaises(data[label_count + 1][1])
       THEN /\ pc' = "crashed"
            /\ exitStatus' = 1
            /\ UNCHANGED <<qr_img, text_img>>
       ELSE /\ qr_img' = create_qr_code(data[label_count + 1][1], args.qr_size,
                                        label_count)
            /\ text_img' = create_text_image(data[label_count + 1][1],
                                             data[label_count + 1][2],
                                             args.qr_size, label_count)
            /\ pc' = "place_qr"
            /\ UNCHANGED exitStatus
    /\ UNCHANGED <<args, file, data, label_count, sheet_num, row, col, sheet,
                   saved, stdout, blits>>

PlaceQR ==
    /\ pc = "place_qr"
    /\ LET b == Blit(sheet, qr_img, qr_y, qr_x)
       IN  /\ sheet' = b.sheet
           /\ blits' = Append(blits, [idx |-> label_count, kind |-> "qr",
                                      outcome |-> b.outcome])
           /\ pc' = IF b.outcome = "raised" THEN "except" ELSE "place_text"
    /\ UNCHANGED <<args, file, data, label_count, sheet_num, row, col, qr_img,
                   text_img, saved, stdout, exitStatus, fetched>>

PlaceText ==
    /\ pc = "place_text"
    /\ LET b == Blit(sheet, text_img, text_y, text_x)
       IN  /\ sheet' = b.sheet
           /\ blits' = Append(blits, [idx |-> label_count, kind |-> "text",
                                      outcome |-> b.outcome])
           /\ pc' = IF b.outcome = "raised" THEN "except" ELSE "incr"
    /\ UNCHANGED <<args, file, data, label_count, sheet_num, row, col, qr_img,
                   text_img, saved, stdout, exitStatus, fetched>>

HandlePlaceError ==
    /\ pc = "except"
    /\ stdout' = Append(stdout, "Error placing label")
    /\ pc' = "incr"
    /\ UNCHANGED <<args, file, data, label_count, sheet_num, row, col, sheet,
                   qr_img, text_img, saved, exitStatus, fetched, blits>>

Increment ==
    /\ pc = "incr"
    /\ label_count' = label_count + 1
    /\ col' = col + 1
    /\ pc' = "cell"
    /\ UNCHANGED <<args, file, data, sheet_num, row, sheet, qr_img, text_img,
                   saved, stdout, exitStatus, fetched, blits>>

\* Line 259: break leaves the column loop only; the row loop goes on.
Break ==
    /\ pc = "cell"
    /\ row < args.rows
    /\ col < args.cols
    /\ label_count >= Len(data)
    /\ row' = row + 1
    /\ col' = 0
    /\ UNCHANGED <<args, file, pc, data, label_count, sheet_num, sheet, qr_img,
                   text_img, saved, stdout, exitStatus, fetched, blits>>

EndRow ==
    /\ pc = "cell"
    /\ row < args.rows
    /\ col = args.cols
    /\ row' = row + 1
    /\ col' = 0
    /\ UNCHANGED <<args, file, pc, data, label_count, sheet_num, sheet, qr_img,
                   text_img, saved, stdout, exitStatus, fetched, blits>>

SaveSheet ==
    /\ pc = "cell"
    /\ row = args.rows
    /\ saved' = Append(saved, [num |-> sheet_num, img |-> sheet])
    /\ stdout' = Append(stdout, "Generated sheet")
    /\ sheet_num' = sheet_num + 1
    /\ pc' = "sheet_loop"
    /\ UNCHANGED <<args, file, data, label_count, row, col, sheet, qr_img,
                   text_img, exitStatus, fetched, blits>>

Finish ==
    /\ pc = "sheet_loop"
    /\ sheet_num > num_sheets
    /\ stdout' = Append(stdout, "Done!")
    /\ exitStatus' = 0
    /\ pc' = "done"
    /\ UNCHANGED <<args, file, data, label_count, sheet_num, row, col, sheet,
                   qr_img, text_img, saved, fetched, blits>>

Next ==
    \/ ReadCsvData
    \/ NoData
    \/ StartGenerate
    \/ NewSheet
    \/ RenderCell
    \/ PlaceQR
    \/ PlaceText
    \/ HandlePlaceError
    \/ Increment
    \/ Break
    \/ EndRow
    \/ SaveSheet
    \/ Finish

Spec == Init /\ [][Next]_vars

(***************************************************************************)
(* Vocabulary of the properties.                                           *)
(***************************************************************************)
Finished == pc \in {"done", "crashed"}

\* The LayoutConfig invariants.
ValidConfig ==
    /\ args.rows >= 1
    /\ args.cols >= 1
    /\ args.qr_size <= args.label_height
    /\ args.qr_size <= args.label_width

\* The rectangle [x, x+w) x [y, y+h) lies inside the current cell.
InCell(y, h, x, w) ==
    /\ x_offset <= x
    /\ x + w <= x_offset + args.label_width
    /\ y_offset <= y
    /\ y + h <= y_offset + args.label_height

\* The target rectangle of a patch exceeds the canvas on some side.
Exceeds(p, y, x) ==
    \/ y < 0
    \/ x < 0
    \/ y + p.h > sheet_height
    \/ x + p.w > sheet_width

InRect(q, p, y, x) ==
    /\ y <= q[1]
    /\ q[1] < y + p.h
    /\ x <= q[2]
    /\ q[2] < x + p.w

\* The pixels of grid cell (r, c).
CellPixels(r, c) ==
    {q \in SheetPixels :
        /\ r * args.label_height <= q[1]
        /\ q[1] < (r + 1) * args.label_height
        /\ c * args.label_width <= q[2]
        /\ q[2] < (c + 1) * args.label_width}

Cells == (0..(args.rows - 1)) \X (0..(args.cols - 1))

PopulatedCells(img) ==
    {rc \in Cells : \E q \in CellPixels(rc[1], rc[2]) : img[q] # Background}

InCellBody == pc \in {"place_qr", "place_text", "except", "incr"}

(***************************************************************************)
(* C1: for every record count N >= 0 and every grid, the run saves exactly *)
(* ceil(N / (rows*cols)) sheets, numbered 1..sheetCount; N = 0 saves none. *)
(***************************************************************************)
C1_SheetCount ==
    Finished =>
        /\ Len(saved) = (Len(read_csv_data(file)) + labels_per_sheet - 1)
                            \div labels_per_sheet
        /\ \A k \in 1..Len(saved) : saved[k].num = k

C3_PatchesInsideCell ==
    (ValidConfig /\ pc = "place_qr") =>
        /\ InCell(qr_y, args.qr_size, qr_x, args.qr_size)
        /\ InCell(text_y, args.qr_size, text_x, args.qr_size)
        /\ \/ qr_x + args.qr_size <= text_x
           \/ text_x + args.qr_size <= qr_x

(***************************************************************************)
(* C4: a record whose rendering fails does not abort the run: the other    *)
(* records are still processed and every sheet is still saved.             *)
(***************************************************************************)
C4_RenderFailureIsolated ==
    (Finished /\ \E i \in 1..Len(data) : QrRaises(data[i][1])) =>
        /\ pc = "done"
        /\ exitStatus = 0
        /\ \A i \in 0..(Len(data) - 1) : \E k \in 1..Len(fetched) : fetched[k].idx = i
        /\ Len(saved) = num_sheets

(***************************************************************************)
(* C5: an unreadable input or a header without the label column ends the   *)
(* run with a failure signal and no sheet; a readable table without data   *)
(* rows ends it cleanly with no sheet.                                     *)
(***************************************************************************)
C5_FatalInputSignalled ==
    Finished =>
        /\ ReadRaises(file) => (exitStatus # 0 /\ saved = <<>>)
        /\ (~ReadRaises(file) /\ DataRows(file) = <<>>) =>
              (exitStatus = 0 /\ saved = <<>>)

(***************************************************************************)
(* C6: a blit whose target rectangle exceeds the canvas leaves the canvas  *)
(* unchanged and does not end the run, which goes on with the next patch   *)
(* or cell; a blit changes no pixel outside the rectangle computed for it. *)
(***************************************************************************)
C6_Step ==
    /\ (pc = "place_qr" /\ Exceeds(qr_img, qr_y, qr_x)) =>
          (sheet' = sheet /\ pc' \in {"place_text", "except"})
    /\ (pc = "place_text" /\ Exceeds(text_img, text_y, text_x)) =>
          (sheet' = sheet /\ pc' \in {"incr", "except"})
    /\ pc = "except" => (sheet' = sheet /\ pc' = "incr")
    /\ pc = "incr" => (pc' = "cell" /\ label_count' = label_count + 1)
    /\ pc = "place_qr" =>
          \A q \in DOMAIN sheet :
              sheet'[q] # sheet[q] => InRect(q, qr_img, qr_y, qr_x)
    /\ pc = "place_text" =>
          \A q \in DOMAIN sheet :
              sheet'[q] # sheet[q] => InRect(q, text_img, text_y, text_x)

C6_OutOfBoundsBlitSkipped == [][C6_Step]_vars

C6_Witness ==
    /\ pc = "done"
    /\ saved # <<>>
    /\ \E k \in 1..Len(blits) : blits[k].outcome = "skipped"
    /\ \E k \in 1..Len(blits) : blits[k].outcome = "raised"
    /\ \E k \in 1..Len(blits) : blits[k].outcome = "written"

(***************************************************************************)
(* C7: the loader yields one (label, description) pair per data row in     *)
(* input order, and a missing field is the empty string.                   *)
(***************************************************************************)
C7_MissingFieldIsEmptyString ==
    (pc # "start" /\ ~ReadRaises(file)) =>
        /\ Len(data) = Len(DataRows(file))
        /\ \A i \in 1..Len(data) :
              /\ data[i][1] # None
              /\ data[i][2] # None
              /\ (\A j \in 1..Min(Len(file.lines[1]), Len(DataRows(file)[i])) :
                      file.lines[1][j] # desc_col) => data[i][2] = ""

(***************************************************************************)
(* C8: under the LayoutConfig invariants a saved sheet s has exactly       *)
(* min(rows*cols, N - s*rows*cols) populated cells, and every cell whose   *)
(* linear index is >= N holds only background pixels.                      *)
(***************************************************************************)
C8_PopulatedCells ==
    ValidConfig =>
        \A k \in 1..Len(saved) :
            /\ Cardinality(PopulatedCells(saved[k].img))
                  = Min(labels_per_sheet, Len(data) - (k - 1) * labels_per_sheet)
            /\ \A rc \in Cells :
                  (k - 1) * labels_per_sheet + rc[1] * args.cols + rc[2] >= Len(data)
                      => \A q \in CellPixels(rc[1], rc[2]) :
                            saved[k].img[q] = Background

(***************************************************************************)
(* C9: sheets are processed one after the other and cells in row-major     *)
(* order; sheet s is saved once, after all its cells were processed and    *)
(* before the canvas of sheet s+1 is allocated; a canvas starts all        *)
(* background with rows*cellHeight by cols*cellWidth pixels; nothing       *)
(* writes to a canvas once it is saved.                                    *)
(***************************************************************************)
C9_Inv ==
    /\ \A k \in 1..Len(saved) :
          saved[k].num = k /\ DOMAIN saved[k].img = SheetPixels
    /\ pc \in {"sheet_loop", "cell", "place_qr", "place_text", "except", "incr"}
          => Len(saved) = sheet_num - 1
    /\ pc = "done" /\ data # <<>> => Len(saved) = sheet_num - 1
    /\ pc \in {"cell", "place_qr", "place_text", "except", "incr"}
          => DOMAIN sheet = SheetPixels
    /\ \A j, k \in 1..Len(fetched) :
          j < k =>
            \/ fetched[j].sheet < fetched[k].sheet
            \/ /\ fetched[j].sheet = fetched[k].sheet
               /\ \/ fetched[j].row < fetched[k].row
                  \/ /\ fetched[j].row = fetched[k].row
                     /\ fetched[j].col < fetched[k].col

C9_Step ==
    /\ saved' # saved =>
          /\ pc = "cell"
          /\ row = args.rows
          /\ saved' = Append(saved, [num |-> sheet_num, img |-> sheet])
          /\ label_count = Min(Len(data), sheet_num * labels_per_sheet)
          /\ sheet' = sheet
    /\ (pc = "sheet_loop" /\ pc' = "cell") =>
          /\ DOMAIN sheet' = SheetPixels
          /\ \A q \in SheetPixels : sheet'[q] = Background
    /\ sheet' # sheet =>
          \/ pc = "sheet_loop"
          \/ pc \in {"place_qr", "place_text"} /\ Len(saved) = sheet_num - 1

C10_ValidLayoutNeverDropped ==
    ValidConfig =>
        /\ pc = "place_qr" => Blit(sheet, qr_img, qr_y, qr_x).outcome = "written"
        /\ pc = "place_text" =>
              Blit(sheet, text_img, text_y, text_x).outcome = "written"
=============================================================================
